---- MODULE Spec2Model ----
(***************************************************************************)
(* Model of the disaster-prediction backend (BACKEND.py): the /predict and *)
(* /evacuation request handlers over the reference data and models loaded  *)
(* once by DisasterModels.                                                  *)
(*                                                                         *)
(* Conventions.  Probabilities are integers in percent (100 = 1.0), so a   *)
(* raw model output of 150 stands for 1.5.  Distances and radii are whole  *)
(* kilometres.  All points lie on one meridian, where the great-circle     *)
(* distance is the arc length KmPerDegree * |difference of latitudes|.     *)
(* A date is the number of days after "now".                               *)
(***************************************************************************)
EXTENDS Integers, Sequences, FiniteSets

VARIABLES
    models,     \* the DisasterModels singleton: shelters and regions datasets
    request,    \* the request handled last
    response,   \* what the handler returned or raised for it
    calls,      \* the PredictionService work done while handling it
    repeated    \* whether it was an evacuation request equal to the one before it

vars == <<models, request, response, calls, repeated>>

----------------------------------------------------------------------------
(* Bounds of the model *)

MaxShelters == 5
MaxRegions == 2
MaxWindow == 2
MaxOut == 2

(* Length of one degree of latitude in km (mean earth radius 6371 km) *)
KmPerDegree == 111

----------------------------------------------------------------------------
(* Helpers *)

Abs(n) == IF n < 0 THEN 0 - n ELSE n

Min(a, b) == IF a < b THEN a ELSE b

SeqsUpTo(S, n) == UNION {[1..k -> S] : k \in 0..n}

(* range(n): tuple of 0 .. n-1, empty when n <= 0 *)
Range(n) == [i \in 1..(IF n < 0 THEN 0 ELSE n) |-> i - 1]

(* zip(a, b): pairs up to the shorter argument *)
Zip(a, b) == [i \in 1..Min(Len(a), Len(b)) |-> <<a[i], b[i]>>]

(* dict(pairs): insertion-ordered mapping; a repeated key keeps its first
   position and takes the last value *)
RECURSIVE Dict(_)
Dict(pairs) ==
    IF pairs = <<>> THEN <<>>
    ELSE LET n == Len(pairs)
             front == Dict(SubSeq(pairs, 1, n - 1))
             last == pairs[n]
         IN IF \E i \in 1..Len(front) : front[i][1] = last[1]
            THEN [i \in 1..Len(front) |->
                    IF front[i][1] = last[1] THEN last ELSE front[i]]
            ELSE Append(front, last)

(* s[a:b] of Python for 0 <= a <= b *)
Slice(s, a, b) == SubSeq(s, a + 1, Min(b, Len(s)))

----------------------------------------------------------------------------
(* Request and reference data domains *)

Locations == {[lat |-> 0, lon |-> 0], [lat |-> 15, lon |-> 0]}

DisasterTags == {"earthquake", "flood", "wildfire", "hurricane", "tsunami"}

(* time_window: int = 7 *)
DefaultWindow == 7

TimeWindows == 0..MaxWindow

Radii == {0, 555, 1110, 1500}

PredictionRequest ==
    [kind : {"predict"}, location : Locations,
     disaster_type : DisasterTags, time_window : TimeWindows]

(* requests that leave time_window at its default *)
DefaultPredictionRequest ==
    [kind : {"predict"}, location : Locations,
     disaster_type : DisasterTags, time_window : {DefaultWindow}]

EvacuationRequest ==
    [kind : {"evacuation"}, start_point : Locations,
     disaster_type : {"flood"}, disaster_radius : Radii]

(* shelters.geojson rows: geometry is Point(x = lon, y = lat) *)
ShelterSites == {[x |-> 0, y |-> 10], [x |-> 0, y |-> 20]}

Capacities == {50, 80}

ShelterDatasets ==
    {[i \in 1..Len(f) |-> [id |-> i, geometry |-> f[i][1], capacity |-> f[i][2]]] :
        f \in SeqsUpTo(ShelterSites \X Capacities, MaxShelters)}

(* regions.geojson rows: an axis-parallel polygon and its terrain columns *)
Polygons ==
    {[minx |-> 0 - 5, maxx |-> 5, miny |-> 0 - 5, maxy |-> 20],
     [minx |-> 0 - 5, maxx |-> 5, miny |-> 0 - 5, maxy |-> 15]}

Terrains ==
    {[elevation |-> 10, river_dist |-> 1, soil_moisture |-> 80],
     [elevation |-> 900, river_dist |-> 50, soil_moisture |-> 10]}

RegionDatasets ==
    {[i \in 1..Len(f) |->
        [geometry |-> f[i][1], elevation |-> f[i][2].elevation,
         river_dist |-> f[i][2].river_dist,
         soil_moisture |-> f[i][2].soil_moisture]] :
        f \in SeqsUpTo(Polygons \X Terrains, MaxRegions)}

(* Values a Keras output unit can emit, and values predict_proba can emit *)
KerasValues == {50, 150}

ProbaValues == {0, 75}

(* What one inference call does: it returns values, or it raises.
   predict(features)[0] is the output row of the one sample: one value per
   output unit, as many units as the loaded network has *)
KerasOutputs ==
    [raised : {FALSE},
     values : {s \in SeqsUpTo(KerasValues, MaxOut) : Len(s) >= 1}]
        \cup {[raised |-> TRUE, values |-> <<>>]}

ProbaOutputs ==
    [raised : {FALSE}, values : {<<p>> : p \in ProbaValues}]
        \cup {[raised |-> TRUE, values |-> <<>>]}

(* The inference a request of this type can reach: earthquake_model.predict,
   flood_model.predict_proba, or none *)
InferenceOutcomes(disaster_type) ==
    IF disaster_type = "earthquake" THEN KerasOutputs
    ELSE IF disaster_type = "flood" THEN ProbaOutputs
    ELSE {[raised |-> FALSE, values |-> <<>>]}

----------------------------------------------------------------------------
(* Geometry *)

(* shapely Point(x, y) *)
Point(x, y) == [x |-> x, y |-> y]

(* geometry.contains(point): interior only, a boundary point is not contained *)
Contains(poly, pt) ==
    /\ poly.minx < pt.x /\ pt.x < poly.maxx
    /\ poly.miny < pt.y /\ pt.y < poly.maxy

(* great_circle(p, q).km for (lat, lon) tuples on one meridian *)
GreatCircleKm(p, q) == KmPerDegree * Abs(p[1] - q[1])

----------------------------------------------------------------------------
(* PredictionService *)

(* prepare_earthquake_features: one feature row per date *)
PrepareEarthquakeFeatures(location, dates) ==
    [op |-> "prepare_earthquake_features", rows |-> Len(dates)]

(* models.regions[models.regions.geometry.contains(point)]: matching rows,
   dataset order kept *)
RECURSIVE SelectRegions(_, _)
SelectRegions(regions, pt) ==
    IF regions = <<>> THEN <<>>
    ELSE IF Contains(Head(regions).geometry, pt)
         THEN <<Head(regions)>> \o SelectRegions(Tail(regions), pt)
         ELSE SelectRegions(Tail(regions), pt)

FloodFeaturesLastMatch(region) ==
    <<region[Len(region)].elevation, region[Len(region)].river_dist,
      region[Len(region)].soil_moisture>>

(* region.iloc[0] columns as the feature row *)
FloodFeatures(region) ==
    <<region[1].elevation, region[1].river_dist, region[1].soil_moisture>>

(* predict_earthquake: [status, value, calls]; out is what the model returns *)
PredictEarthquake(location, dates, out) ==
    LET features == PrepareEarthquakeFeatures(location, dates)
        call == [op |-> "earthquake_model.predict", output |-> out]
        predictions == out.values
    IN [raised |-> out.raised,
        value |-> [i \in 1..Len(predictions) |-> predictions[i]],
        calls |-> <<features, call>>]

(* predict_flood: 0.0 without inference when no region contains the point *)
PredictFlood(regions, location, out) ==
    LET point == Point(location.lon, location.lat)
        region == SelectRegions(regions, point)
        lookup == [op |-> "regions.contains", matches |-> Len(region)]
    IN IF Len(region) = 0
       THEN [raised |-> FALSE, value |-> 0, calls |-> <<lookup>>]
       ELSE [raised |-> out.raised,
             value |-> IF out.raised THEN 0 ELSE out.values[1],
             calls |-> <<lookup,
                         [op |-> "flood_model.predict_proba",
                          features |-> FloodFeatures(region),
                          output |-> out]>>]

----------------------------------------------------------------------------
(* /predict *)

(* a handler that builds the earthquake features before it looks at the tag *)
PredictResponseEager(regions, req, out) ==
    LET dates == Range(req.time_window)
        features == PrepareEarthquakeFeatures(req.location, dates)
    IN IF req.disaster_type = "earthquake"
       THEN LET r == PredictEarthquake(req.location, dates, out)
            IN IF r.raised
               THEN [response |-> [status |-> 500], calls |-> r.calls]
               ELSE [response |-> [status |-> 200, disaster |-> "earthquake",
                                   risks |-> Dict(Zip(dates, r.value)),
                                   unit |-> "probability"],
                     calls |-> r.calls]
       ELSE [response |-> [status |-> 400,
                           detail |-> "Disaster type not supported"],
             calls |-> <<features>>]

PredictResponse(regions, req, out) ==
    LET dates == Range(req.time_window)
    IN IF req.disaster_type = "earthquake"
       THEN LET r == PredictEarthquake(req.location, dates, out)
            IN IF r.raised
               THEN [response |-> [status |-> 500], calls |-> r.calls]
               ELSE [response |-> [status |-> 200, disaster |-> "earthquake",
                                   risks |-> Dict(Zip(dates, r.value)),
                                   unit |-> "probability"],
                     calls |-> r.calls]
       ELSE IF req.disaster_type = "flood"
       THEN LET r == PredictFlood(regions, req.location, out)
            IN IF r.raised
               THEN [response |-> [status |-> 500], calls |-> r.calls]
               ELSE [response |-> [status |-> 200, disaster |-> "flood",
                                   risk |-> r.value, unit |-> "probability"],
                     calls |-> r.calls]
       ELSE [response |-> [status |-> 400,
                           detail |-> "Disaster type not supported"],
             calls |-> <<>>]

PredictDisaster(req, out) ==
    LET r == PredictResponse(models.regions, req, out)
    IN /\ request' = req
       /\ response' = r.response
       /\ calls' = r.calls
       /\ repeated' = FALSE
       /\ UNCHANGED models

----------------------------------------------------------------------------
(* /evacuation *)

OutsideRadiusInclusive(distance, radius) == distance >= radius

(* if distance > request.disaster_radius *)
OutsideRadius(distance, radius) == distance > radius

(* the loop over models.shelters.iterrows(): candidates outside the radius *)
RECURSIVE SafeShelters(_, _, _)
SafeShelters(shelters, start_point, radius) ==
    IF shelters = <<>> THEN <<>>
    ELSE LET shelter == Head(shelters)
             shelter_point == <<shelter.geometry.y, shelter.geometry.x>>
             distance == GreatCircleKm(start_point, shelter_point)
             rest == SafeShelters(Tail(shelters), start_point, radius)
         IN IF OutsideRadius(distance, radius)
            THEN <<[id |-> shelter.id,
                    location |-> [lat |-> shelter_point[1],
                                  lon |-> shelter_point[2]],
                    distance_km |-> distance,
                    capacity |-> shelter.capacity]>> \o rest
            ELSE rest

KeyLessAscendingCapacity(a, b) ==
    \/ a.distance_km < b.distance_km
    \/ /\ a.distance_km = b.distance_km
       /\ a.capacity < b.capacity

(* key=lambda x: (x['distance_km'], -x['capacity']), compared as tuples *)
KeyLess(a, b) ==
    \/ a.distance_km < b.distance_km
    \/ /\ a.distance_km = b.distance_km
       /\ (0 - a.capacity) < (0 - b.capacity)

(* sorted(): stable, so x goes behind every element whose key is not larger *)
RECURSIVE InsertSorted(_, _)
InsertSorted(s, x) ==
    IF s = <<>> THEN <<x>>
    ELSE IF KeyLess(x, Head(s)) THEN <<x>> \o s
         ELSE <<Head(s)>> \o InsertSorted(Tail(s), x)

RECURSIVE Sorted(_)
Sorted(s) ==
    IF s = <<>> THEN <<>>
    ELSE InsertSorted(Sorted(SubSeq(s, 1, Len(s) - 1)), s[Len(s)])

NoSheltersOrOne(shelters) == Len(shelters) <= 1

(* if not shelters *)
NoShelters(shelters) == shelters = <<>>

(* shelters[0] *)
RecommendedShelter(shelters) == shelters[1]

AlternativeSheltersUncapped(shelters) == Slice(shelters, 1, Len(shelters))

(* shelters[1:4] *)
AlternativeShelters(shelters) == Slice(shelters, 1, 4)

EvacuationResponse(dataset, req) ==
    LET start_point == <<req.start_point.lat, req.start_point.lon>>
        shelters == Sorted(SafeShelters(dataset, start_point, req.disaster_radius))
    IN IF NoShelters(shelters)
       THEN [status |-> 404,
             detail |-> "No safe shelters found within parameters"]
       ELSE [status |-> 200,
             recommended_shelter |-> RecommendedShelter(shelters),
             alternative_shelters |-> AlternativeShelters(shelters),
             disaster_type |-> req.disaster_type]

(* a handler that books a place in the shelter it recommends *)
ModelsAfterBooking(m, req) ==
    LET r == EvacuationResponse(m.shelters, req)
    IN IF r.status = 200
       THEN [m EXCEPT !.shelters[r.recommended_shelter.id].capacity = @ - 1]
       ELSE m

(* the handler builds its own list and writes nothing back to models *)
ModelsAfterEvacuation(m, req) == m

GetEvacuationRoute(req) ==
    /\ request' = req
    /\ response' = EvacuationResponse(models.shelters, req)
    /\ calls' = <<>>
    /\ repeated' = (request = req)
    /\ models' = ModelsAfterEvacuation(models, req)

----------------------------------------------------------------------------
(* Specifications *)

BaseRegions ==
    <<[geometry |-> [minx |-> 0 - 5, maxx |-> 5, miny |-> 0 - 5, maxy |-> 15],
       elevation |-> 10, river_dist |-> 1, soil_moisture |-> 80]>>

BaseShelters ==
    <<[id |-> 1, geometry |-> [x |-> 0, y |-> 20], capacity |-> 50],
      [id |-> 2, geometry |-> [x |-> 0, y |-> 10], capacity |-> 80]>>

Idle ==
    /\ request = [kind |-> "none"]
    /\ response = [status |-> 0]
    /\ calls = <<>>
    /\ repeated = FALSE

(* DisasterModels(): any shelter dataset, one region *)
Init ==
    /\ models \in [shelters : ShelterDatasets, regions : {BaseRegions}]
    /\ Idle

(* DisasterModels(): any region dataset, two shelters *)
InitRegions ==
    /\ models \in [shelters : {BaseShelters}, regions : RegionDatasets]
    /\ Idle

(* clients that never set time_window *)
Next ==
    \/ \E req \in DefaultPredictionRequest :
          \E out \in InferenceOutcomes(req.disaster_type) :
             PredictDisaster(req, out)
    \/ \E req \in EvacuationRequest : GetEvacuationRoute(req)

(* clients that set every field *)
NextWindows ==
    \/ \E req \in PredictionRequest :
          \E out \in InferenceOutcomes(req.disaster_type) :
             PredictDisaster(req, out)
    \/ \E req \in EvacuationRequest : GetEvacuationRoute(req)

Spec == Init /\ [][Next]_vars

SpecPredict == InitRegions /\ [][NextWindows]_vars

----------------------------------------------------------------------------
(* Vocabulary of the properties *)

(* the fixed enumeration of disaster types *)
Enumeration == {"earthquake", "flood", "wildfire", "hurricane"}

IsEvacuation == request.kind = "evacuation"

IsPredict == request.kind = "predict"

HasPlan == IsEvacuation /\ response.status = 200

(* recommended shelter followed by the alternates *)
Plan == <<response.recommended_shelter>> \o response.alternative_shelters

Rows == 1..Len(models.shelters)

(* distance of dataset row i from the requested start point *)
RowDistance(i) ==
    GreatCircleKm(<<request.start_point.lat, request.start_point.lon>>,
                  <<models.shelters[i].geometry.y, models.shelters[i].geometry.x>>)

Survivors == {i \in Rows : RowDistance(i) > request.disaster_radius}

(* row i ranks before row j: closer, or as close and larger, or equal in
   both and earlier in the dataset *)
Precedes(i, j) ==
    \/ RowDistance(i) < RowDistance(j)
    \/ /\ RowDistance(i) = RowDistance(j)
       /\ models.shelters[i].capacity > models.shelters[j].capacity
    \/ /\ RowDistance(i) = RowDistance(j)
       /\ models.shelters[i].capacity = models.shelters[j].capacity
       /\ i < j

Rank(i) == Cardinality({j \in Survivors : Precedes(j, i)})

(* rows containing the requested point, in dataset order *)
Matches ==
    {i \in 1..Len(models.regions) :
        Contains(models.regions[i].geometry,
                 Point(request.location.lon, request.location.lat))}

FirstMatch == CHOOSE i \in Matches : \A j \in Matches : i <= j

InferenceCalls ==
    {i \in 1..Len(calls) :
        calls[i].op \in {"earthquake_model.predict", "flood_model.predict_proba"}}

----------------------------------------------------------------------------
(* C1: every shelter of a returned plan is a dataset row whose great-circle
   distance from the start point is strictly greater than the radius, and no
   row at a distance less than or equal to the radius is in a plan. *)
C1_PlanOutsideRadius ==
    HasPlan =>
        /\ \A n \in 1..Len(Plan) :
              /\ Plan[n].id \in Rows
              /\ Plan[n].distance_km = RowDistance(Plan[n].id)
              /\ RowDistance(Plan[n].id) > request.disaster_radius
        /\ \A i \in Rows :
              RowDistance(i) <= request.disaster_radius
                  => \A n \in 1..Len(Plan) : Plan[n].id # i

(* a plan is returned from a dataset with a row exactly on the radius *)
C1_Witness ==
    /\ HasPlan
    /\ \E i \in Rows : RowDistance(i) = request.disaster_radius

(* C2: the planner answers 404 (no safe shelter) exactly when no row lies
   strictly outside the radius, then without a recommendation; otherwise it
   answers with a plan that has a recommended shelter. *)
C2_NoSafeShelterIffNoSurvivor ==
    IsEvacuation =>
        /\ response.status = 404 <=> Survivors = {}
        /\ response.status = 404 =>
              "recommended_shelter" \notin DOMAIN response
        /\ response.status # 404 =>
              /\ response.status = 200
              /\ "recommended_shelter" \in DOMAIN response

(* the error is returned for a dataset with rows, one of them on the radius *)
C2_Witness ==
    /\ IsEvacuation
    /\ response.status = 404
    /\ \E i \in Rows : RowDistance(i) = request.disaster_radius

(* C3: a plan is ordered by ascending distance, then by descending
   capacity, and rows equal in both keep their dataset order. *)
C3_PlanOrdered ==
    HasPlan =>
        \A m, n \in 1..Len(Plan) :
            m < n =>
                /\ Plan[m].distance_km <= Plan[n].distance_km
                /\ Plan[m].distance_km = Plan[n].distance_km
                      => Plan[m].capacity >= Plan[n].capacity
                /\ (/\ Plan[m].distance_km = Plan[n].distance_km
                    /\ Plan[m].capacity = Plan[n].capacity)
                      => Plan[m].id < Plan[n].id

(* a plan in which the larger of two equally distant shelters was moved in
   front of an earlier row, next to two shelters equal in both keys *)
C3_Witness ==
    /\ HasPlan
    /\ \E m, n \in 1..Len(Plan) :
          /\ m < n
          /\ Plan[m].distance_km = Plan[n].distance_km
          /\ Plan[m].capacity > Plan[n].capacity
          /\ Plan[m].id > Plan[n].id
    /\ \E m, n \in 1..Len(Plan) :
          /\ m < n
          /\ Plan[m].distance_km = Plan[n].distance_km
          /\ Plan[m].capacity = Plan[n].capacity

(* C4: with k >= 1 survivors the recommended shelter is the survivor of rank
   0 and the alternates are the survivors of ranks 1 .. min(3, k-1) in rank
   order: min(4, k) distinct shelters, at most three alternates. *)
C4_PlanIsTopRanks ==
    HasPlan =>
        LET k == Cardinality(Survivors)
        IN /\ k >= 1
           /\ Len(Plan) = Min(4, k)
           /\ Len(response.alternative_shelters) = Min(3, k - 1)
           /\ \A n \in 1..Len(Plan) :
                 /\ Plan[n].id \in Survivors
                 /\ Rank(Plan[n].id) = n - 1
           /\ \A m, n \in 1..Len(Plan) : m # n => Plan[m].id # Plan[n].id

(* more than four survivors: the plan stops at three alternates *)
C4_Witness ==
    /\ HasPlan
    /\ Cardinality(Survivors) > 4
    /\ Len(response.alternative_shelters) = 3

(* C5: predict rejects a request (400) if and only if its tag is outside
   the enumeration; a result carries the request's tag and the unit
   "probability". *)
C5_RejectsIffOutsideEnumeration ==
    IsPredict =>
        /\ response.status = 400 <=> request.disaster_type \notin Enumeration
        /\ response.status = 200 =>
              /\ response.disaster = request.disaster_type
              /\ response.unit = "probability"

(* C6: a rejected predict request has caused no feature construction, no
   region lookup and no model inference. *)
C6_RejectionBeforeAnyWork ==
    (IsPredict /\ response.status = 400) => calls = <<>>

(* the tag "tsunami" was rejected *)
C6_Witness ==
    /\ IsPredict
    /\ request.disaster_type = "tsunami"
    /\ response.status = 400

(* C7: an earthquake result for time window N has exactly N entries, the
   days now .. now+N-1 in ascending order, the i-th paired with the i-th
   model output. *)
C7_OneEntryPerDay ==
    (IsPredict /\ request.disaster_type = "earthquake" /\ response.status = 200)
        => /\ Len(response.risks) = request.time_window
           /\ \A i \in 1..Len(response.risks) :
                 /\ response.risks[i][1] = i - 1
                 /\ response.risks[i][2] = calls[2].output.values[i]

(* C8: every probability of a result lies in [0, 1]. *)
C8_ProbabilitiesInUnitInterval ==
    (IsPredict /\ response.status = 200) =>
        IF request.disaster_type = "earthquake"
        THEN \A i \in 1..Len(response.risks) :
                response.risks[i][2] >= 0 /\ response.risks[i][2] <= 100
        ELSE response.risk >= 0 /\ response.risk <= 100

(* C9: a flood request at a point in no region is answered with risk 0.0,
   with no error and no inference; at a point in one or more regions the
   features given to the flood model are those of the first matching row. *)
C9_FloodRegionLookup ==
    (IsPredict /\ request.disaster_type = "flood") =>
        /\ Matches = {} =>
              /\ response.status = 200
              /\ response.risk = 0
              /\ InferenceCalls = {}
        /\ Matches # {} =>
              /\ InferenceCalls = {2}
              /\ calls[2].op = "flood_model.predict_proba"
              /\ calls[2].features =
                    <<models.regions[FirstMatch].elevation,
                      models.regions[FirstMatch].river_dist,
                      models.regions[FirstMatch].soil_moisture>>

(* the point lies in two regions of different terrain *)
C9_Witness ==
    /\ IsPredict
    /\ request.disaster_type = "flood"
    /\ Cardinality(Matches) = 2
    /\ models.regions[1].elevation # models.regions[2].elevation
    /\ response.status = 200

====
